---- MODULE Spec2Model ----
(***************************************************************************)
(* Model of kindle_clipping_html_formatter.py: the clipping parser         *)
(* (Highlight.parse_highlight and its helpers), the Book aggregation loop  *)
(* of process() and the insert-if-absent persistence of                    *)
(* Book.write_book_to_supabase.                                            *)
(*                                                                         *)
(* Text is represented as a sequence of tokens (strings).  A book-details  *)
(* line is a sequence of single characters; a highlight-details line is a  *)
(* sequence of the format's lexical units ("- Your ", " on ", " | ",       *)
(* " | Added on ", ...).  str.split, str.replace, str.strip and the two    *)
(* regular expressions act on these sequences as the Python calls act on   *)
(* the text.  A raw block is the sequence of its lines.                    *)
(***************************************************************************)
EXTENDS Integers, Sequences, FiniteSets, TLC

(***************************************************************************)
(* Python values                                                           *)
(***************************************************************************)
\* Python's None, in a field that otherwise holds text.
None == <<"None">>

\* A call either returns a value or raises; "raised" names the exception.
Return(v) == [raised |-> "", value |-> v]
Raise(e) == [raised |-> e]

(***************************************************************************)
(* Character classes of the regular expressions, over the model alphabet.  *)
(* Any character outside these sets (such as "!" or "#") is neither        *)
(* alphanumeric, whitespace nor kept punctuation.                          *)
(***************************************************************************)
AlnumChars == {"D", "u", "n", "e", "E", "m", "a", "x", "A", "B", "1", "2"}
WhitespaceChars == {" ", "\n", "\t"}
KeptPunctuation == {";", ",", "_", "-", ".", "(", ")", "'", "\""}
\* The characters the first re.sub of tidy_title keeps: letters, digits,
\* whitespace and the listed punctuation.
IsKeptChar(c) == c \in AlnumChars \cup WhitespaceChars \cup KeptPunctuation
\* A word character of the second re.sub of tidy_title: letter, digit, underscore.
IsWordChar(c) == c \in AlnumChars \cup {"_"}

(***************************************************************************)
(* str operations on token sequences                                       *)
(***************************************************************************)
\* s.replace(tok, ""): every occurrence of the token is removed.
RECURSIVE RemoveToken(_, _)
RemoveToken(s, tok) ==
    IF s = <<>> THEN <<>>
    ELSE (IF Head(s) = tok THEN <<>> ELSE <<Head(s)>>) \o RemoveToken(Tail(s), tok)

\* s.strip(): leading and trailing whitespace removed.
RECURSIVE LStrip(_)
LStrip(s) ==
    IF s # <<>> /\ Head(s) \in WhitespaceChars THEN LStrip(Tail(s)) ELSE s
RECURSIVE RStrip(_)
RStrip(s) ==
    IF s # <<>> /\ s[Len(s)] \in WhitespaceChars
    THEN RStrip(SubSeq(s, 1, Len(s) - 1)) ELSE s
Strip(s) == RStrip(LStrip(s))

\* s.split(sep): the pieces between the occurrences of sep, at least one.
RECURSIVE Split(_, _)
Split(s, sep) ==
    LET hits == {i \in 1..Len(s) : s[i] = sep} IN
    IF hits = {} THEN <<s>>
    ELSE LET i == CHOOSE x \in hits : \A y \in hits : x <= y IN
         <<SubSeq(s, 1, i - 1)>> \o Split(SubSeq(s, i + 1, Len(s)), sep)

\* sep.join(lines)
RECURSIVE Join(_, _)
Join(lines, sep) ==
    IF lines = <<>> THEN <<>>
    ELSE IF Len(lines) = 1 THEN lines[1]
    ELSE lines[1] \o <<sep>> \o Join(Tail(lines), sep)

(***************************************************************************)
(* Book.tidy_title                                                         *)
(***************************************************************************)
\* The first re.sub: every run of characters outside the kept class is removed.
RECURSIVE RemoveUnwanted(_)
RemoveUnwanted(s) ==
    IF s = <<>> THEN <<>>
    ELSE (IF IsKeptChar(Head(s)) THEN <<Head(s)>> ELSE <<>>) \o RemoveUnwanted(Tail(s))

\* The second re.sub: non-word characters are trimmed off the start and the end.
RECURSIVE TrimNonWordLeft(_)
TrimNonWordLeft(s) ==
    IF s # <<>> /\ ~IsWordChar(Head(s)) THEN TrimNonWordLeft(Tail(s)) ELSE s
RECURSIVE TrimNonWordRight(_)
TrimNonWordRight(s) ==
    IF s # <<>> /\ ~IsWordChar(s[Len(s)])
    THEN TrimNonWordRight(SubSeq(s, 1, Len(s) - 1)) ELSE s

tidy_title(raw_title) == TrimNonWordRight(TrimNonWordLeft(RemoveUnwanted(raw_title)))

(***************************************************************************)
(* The author search of parse_highlight, re.search of the pattern          *)
(* "parenthesised group without a closing parenthesis inside, then no      *)
(* opening parenthesis up to the end of the line".  A match starts at an   *)
(* opening parenthesis whose first following closing parenthesis is        *)
(* followed by no further opening parenthesis; re.search returns the       *)
(* leftmost one.  start is 0-based, as in Python.                          *)
(***************************************************************************)
AuthorSearch(book_details) ==
    LET n == Len(book_details)
        Close(p) == {q \in (p + 1)..n :
                        /\ book_details[q] = ")"
                        /\ \A r \in (p + 1)..(q - 1) : book_details[r] # ")"
                        /\ \A r \in (q + 1)..n : book_details[r] # "("}
        starts == {p \in 1..n : book_details[p] = "(" /\ Close(p) # {}}
    IN  IF starts = {} THEN [found |-> FALSE]
        ELSE LET p == CHOOSE x \in starts : \A y \in starts : x <= y
                 q == CHOOSE x \in Close(p) : TRUE
             IN  [found |-> TRUE, start |-> p - 1,
                  group |-> SubSeq(book_details, p + 1, q - 1)]

(***************************************************************************)
(* Highlight.tidy_date                                                     *)
(* The verbose date is four tokens: the calendar part, the hour, the       *)
(* minutes and seconds, and the AM/PM marker.  strptime with               *)
(* '%A, %B %d, %Y %H:%M:%S %p' raises ValueError on any other shape.       *)
(***************************************************************************)
\* The calendar part, '%A, %B %d, %Y ' in and '%d/%m/%y' out.
CalendarParts == {"Wednesday, October 24, 2018 ", "Monday, January 1, 2018 "}
CalendarOut(tok) ==
    IF tok = "Wednesday, October 24, 2018 " THEN "24/10/18" ELSE "01/01/18"
\* ':%M:%S ' in and ':%M:%S' out.
MinSecParts == {":25:36 ", ":00:00 "}
MinSecOut(tok) == IF tok = ":25:36 " THEN ":25:36" ELSE ":00:00"
\* %H accepts the hours 0..23; int() of the matched digits.
HourTokens == <<"0", "1", "2", "3", "4", "5", "6", "7", "8", "9", "10", "11",
                "12", "13", "14", "15", "16", "17", "18", "19", "20", "21",
                "22", "23">>
IsHourToken(tok) == \E n \in 1..Len(HourTokens) : HourTokens[n] = tok
IntOfHour(tok) == (CHOOSE n \in 1..Len(HourTokens) : HourTokens[n] = tok) - 1
MeridiemTokens == {"AM", "PM"}

\* datetime.strptime(date_str, '%A, %B %d, %Y %H:%M:%S %p'): the hour field is
\* the one %H matched; %p is matched and consulted only by %I, which the format
\* does not use.
strptime24(h, meridiem) == h

\* The canonical date 'DD/MM/YY HH:MM:SS' is <<"DD/MM/YY", HH, ":MM:SS">>.
tidy_date(raw_date) ==
    LET date_str == RemoveToken(raw_date, "Added on ") IN
    IF /\ Len(date_str) = 4
       /\ date_str[1] \in CalendarParts
       /\ IsHourToken(date_str[2])
       /\ date_str[3] \in MinSecParts
       /\ date_str[4] \in MeridiemTokens
    THEN Return(<<CalendarOut(date_str[1]),
                  strptime24(IntOfHour(date_str[2]), date_str[4]),
                  MinSecOut(date_str[3])>>)
    ELSE Raise("ValueError")

(***************************************************************************)
(* Highlight.get_type_and_location                                         *)
(***************************************************************************)
\* PickLocation with the page preferred: the first piece, whatever their number.
PickFirstPiece(page_and_location) == page_and_location[1]

\* The location kept out of the pieces of type_and_location[1].split(" | ").
PickLocation(page_and_location) ==
    IF Len(page_and_location) = 1 THEN page_and_location[1]
    ELSE page_and_location[2]

get_type_and_location(loc_str) ==
    LET stripped == Strip(RemoveToken(loc_str, "- Your "))
        type_and_location == Split(stripped, " on ")
    IN  IF Len(type_and_location) < 2 THEN Raise("IndexError")
        ELSE LET highlight_type == type_and_location[1]
                 page_and_location == Split(type_and_location[2], " | ")
                 highlight_location == PickLocation(page_and_location)
             IN  Return(<<Strip(highlight_type), Strip(highlight_location)>>)

(***************************************************************************)
(* Highlight.parse_highlight                                               *)
(***************************************************************************)
empty_set == [title |-> None, author |-> None, highlight_type |-> None,
              main_loc |-> None, date |-> None, content |-> None]

\* Lines 159-167: the line-count check, then the drop of an empty first line.
\* Returns the lines to parse, or <<>> where the code returns empty_set.
EnoughLines(split_str) == Len(split_str) >= 5

CheckedLines(split_str) ==
    IF ~EnoughLines(split_str) THEN <<>>
    ELSE IF split_str[1] = <<>> THEN Tail(split_str)
    ELSE split_str

\* raw_highlight_str is given as raw_highlight_str.split('\n').
parse_highlight(raw_highlight_str) ==
    LET split_str == CheckedLines(raw_highlight_str) IN
    IF split_str = <<>> THEN Return(empty_set)
    ELSE
    LET book_details == split_str[1]
        book_details_split == AuthorSearch(book_details)
    IN
    IF ~book_details_split.found THEN Return(empty_set)
    ELSE
    LET title == tidy_title(SubSeq(book_details, 1, book_details_split.start))
        author == book_details_split.group
        highlight_details == split_str[2]
        highlight_details_split == Split(highlight_details, " | Added on ")
        type_and_location == get_type_and_location(highlight_details_split[1])
    IN
    \* "if highlight_details_split:" is always true: split returns a non-empty list
    IF type_and_location.raised # "" THEN Raise(type_and_location.raised)
    ELSE IF Len(highlight_details_split) < 2 THEN Raise("IndexError")
    ELSE
    LET date == tidy_date(highlight_details_split[2]) IN
    IF date.raised # "" THEN Raise(date.raised)
    ELSE
    LET content == Join(SubSeq(split_str, 4, Len(split_str) - 1), "\n") IN
    Return([title |-> Strip(title),
            author |-> Strip(author),
            highlight_type |-> Strip(type_and_location.value[1]),
            main_loc |-> Strip(type_and_location.value[2]),
            date |-> date.value,
            content |-> Strip(content)])

(***************************************************************************)
(* Highlight.to_hash and convert_date_to_iso                               *)
(***************************************************************************)
\* The digest is a function of the content alone.  SHA-1 is abstracted by a
\* position-weighted checksum over a small range: deterministic, fixed length,
\* and (as any digest of unbounded text) not injective.
HashMod == 5
TokenCode(tok) ==
    CASE tok = "text1" -> 1
      [] tok = "text2" -> 2
      [] tok = "\n" -> 3
      [] OTHER -> 4
RECURSIVE Checksum(_, _)
Checksum(content, k) ==
    IF content = <<>> THEN 0
    ELSE (k * TokenCode(Head(content)) + Checksum(Tail(content), k + 1)) % HashMod
\* The digest line 115 keeps as a comment: of the title, author and location.
to_hash_of_place(highlight) ==
    Checksum(highlight.title \o highlight.author \o highlight.main_loc, 1)

to_hash(highlight) == Checksum(highlight.content, 1)

\* strptime with OUTPUT_DATE_FORMAT, then isoformat(): 'DD/MM/YY' becomes
\* 'YYYY-MM-DD', the time of day is kept.
IsoCalendar(ddmmyy) == IF ddmmyy = "24/10/18" THEN "2018-10-24" ELSE "2018-01-01"
convert_date_to_iso(datestring) ==
    <<IsoCalendar(datestring[1]), "T", datestring[2], datestring[3]>>

(***************************************************************************)
(* Book                                                                    *)
(***************************************************************************)
\* Book.__init__ without its registration in Book.book_titles.
Book(title, author) ==
    [title |-> tidy_title(title), author |-> author, highlights |-> <<>>]

\* add_highlight putting the Highlight in front.
add_highlight_first(book, highlight) ==
    [book EXCEPT !.highlights = <<highlight>> \o @]

\* Book.add_highlight: a Highlight object is always truthy.
add_highlight(book, highlight) ==
    [book EXCEPT !.highlights = Append(@, highlight)]

\* The select of write_book_to_supabase: the rows whose hash equals the key.
SelectByHash(table, highlight_hash) ==
    SelectSeq(table, LAMBDA row : row.hash = highlight_hash)

\* One iteration of the loop of write_book_to_supabase.
WriteHighlight(table, book, highlight) ==
    LET highlight_hash == to_hash(highlight)
        data == SelectByHash(table, highlight_hash)
    IN
    IF Len(data) = 0
    THEN Append(table, [hash |-> highlight_hash,
                        title |-> book.title,
                        author |-> book.author,
                        highlight_type |-> highlight.highlight_type,
                        main_loc |-> highlight.main_loc,
                        content |-> highlight.content,
                        timestamp |-> convert_date_to_iso(highlight.date)])
    ELSE table

\* Book.write_book_to_supabase: the table after the loop over book.highlights.
RECURSIVE WriteHighlights(_, _, _)
WriteHighlights(table, book, todo) ==
    IF todo = <<>> THEN table
    ELSE WriteHighlights(WriteHighlight(table, book, Head(todo)), book, Tail(todo))
write_book_to_supabase(book, table) == WriteHighlights(table, book, book.highlights)

(***************************************************************************)
(* The clippings format: the lines a Kindle export is made of              *)
(***************************************************************************)
\* "<raw title> (<author>)": the raw title keeps the blank before the group.
BookLine(raw_title, author) == raw_title \o <<" ", "(">> \o author \o <<")">>

\* "Wednesday, October 24, 2018 10:25:36 PM"
VerboseDate(calendar, hour, minsec, meridiem) ==
    <<calendar, HourTokens[hour + 1], minsec, meridiem>>

\* "- Your <Kind> on Location <range>" and
\* "- Your <Kind> on page <n> | Location <range>"
Descriptor(kind, with_page, range) ==
    <<"- Your ", kind, " on ">>
    \o (IF with_page THEN <<"page ", "57", " | ">> ELSE <<>>)
    \o <<"Location ", range>>

\* "<descriptor> | Added on <date>"
DetailLine(descriptor, date) == descriptor \o <<" | Added on ">> \o date

\* A block as the parser receives it, split into lines: the empty line left by
\* the preceding separator, the two header lines, the blank line, the content
\* lines and the empty piece after the last line break.
Block(lead, book_line, detail_line, content_lines, trail) ==
    (IF lead THEN << <<>> >> ELSE <<>>)
    \o <<book_line, detail_line, <<>> >>
    \o content_lines
    \o (IF trail THEN << <<>> >> ELSE <<>>)

(***************************************************************************)
(* Bounds and inputs of the runs of process()                              *)
(***************************************************************************)
\* blocks of the file of the script's single run
MaxBlocks == 3
\* calls of process() by a caller that runs it again and again, and the blocks
\* of the files it is given
MaxRuns == 2
MaxRunBlocks == 2

DateA == VerboseDate("Wednesday, October 24, 2018 ", 10, ":25:36 ", "PM")
DateB == VerboseDate("Monday, January 1, 2018 ", 12, ":00:00 ", "AM")

\* "Dune (A)", a highlight of text1
BlockDune ==
    Block(TRUE, BookLine(<<"D", "u", "n", "e">>, <<"A">>),
          DetailLine(Descriptor("Highlight", FALSE, "120-121"), DateA),
          << <<"text1">> >>, TRUE)
\* "Dune! (B)", a note of text2: the same normalized title, another author
BlockDuneBang ==
    Block(TRUE, BookLine(<<"D", "u", "n", "e", "!">>, <<"B">>),
          DetailLine(Descriptor("Note", TRUE, "866"), DateB),
          << <<"text2">> >>, TRUE)
\* "Emma (B)", a highlight of text1: the content of BlockDune under another title
BlockEmma ==
    Block(TRUE, BookLine(<<"E", "m", "m", "a">>, <<"B">>),
          DetailLine(Descriptor("Highlight", FALSE, "866"), DateB),
          << <<"text1">> >>, TRUE)
\* "#! (A)": the title normalizes to the empty string
BlockNoTitle ==
    Block(TRUE, BookLine(<<"#", "!">>, <<"A">>),
          DetailLine(Descriptor("Note", FALSE, "120-121"), DateA),
          << <<"text2">> >>, TRUE)
\* "\n": what follows the last separator of a file
BlockTail == << <<>>, <<>> >>
\* a detail line without " | Added on "
BlockNoDate ==
    Block(TRUE, BookLine(<<"D", "u", "n", "e">>, <<"A">>),
          Descriptor("Bookmark", FALSE, "120-121"),
          << <<"text2">> >>, TRUE)

Blocks == {BlockDune, BlockDuneBang, BlockEmma, BlockNoTitle, BlockTail, BlockNoDate}

\* file_contents.split(HIGHLIGHT_SEPARATOR): at least one block.
FilesUpTo(max) == UNION {[1..n -> Blocks] : n \in 1..max}
Files == FilesUpTo(MaxBlocks)
RunFiles == FilesUpTo(MaxRunBlocks)

(***************************************************************************)
(* State                                                                   *)
(***************************************************************************)
VARIABLES
    pc,               \* where process() is: idle, aggregate, persist, done, aborted
    runs,             \* calls of process() so far
    highlights,       \* process: the raw blocks of the file
    i,                \* process: blocks the first loop has consumed
    book_titles,      \* Book.book_titles, the class attribute
    library,          \* process: the Books, in creation order
    processed_books,  \* process: titles already written
    bk,               \* process: Books the second loop has consumed
    clippings,        \* the rows of the remote table "clippings"
    rerun,            \* this call was given the file of the call before it
    raw_input,        \* parser runs: the block handed to the parser
    parsed,           \* parser runs: result of parse_highlight
    tidied,           \* parser runs: result of tidy_date
    located           \* parser runs: result of get_type_and_location

process_vars == <<pc, runs, highlights, i, book_titles, library, processed_books,
                  bk, clippings, rerun>>
parser_vars == <<raw_input, parsed, tidied, located>>
vars == <<process_vars, parser_vars>>

Pending == [raised |-> "pending"]

(***************************************************************************)
(* process()                                                               *)
(***************************************************************************)
\* process() without the reset of line 227.
KeepBookTitles(known) == known

\* The test of line 243 without the registry.
IsNewTitleAlways(h, known) == h.title # None

\* The test of line 255 letting every Book through.
AnyTitle(book) == TRUE

\* Line 227: Book.book_titles = set()
ResetBookTitles(known) == {}

\* Line 243: the title is new
IsNewTitle(h, known) == h.title # None /\ h.title \notin known

\* Line 255: "if book.title:"
HasTitle(book) == book.title # <<>>

\* What process() hands back to its caller about blocks it could not use: it
\* has no return statement and collects no failure.
ReportedFailures == <<>>

\* The state the first loop leaves to the second one.
AfterAggregation(lib) == IF lib = <<>> THEN "done" ELSE "persist"

\* Lines 216-237: a call of process() up to its first loop.
StartRun(file) ==
    /\ pc \in {"idle", "done", "aborted"}
    /\ runs' = runs + 1
    /\ rerun' = (runs > 0 /\ file = highlights)
    /\ processed_books' = <<>>
    /\ library' = <<>>
    /\ book_titles' = ResetBookTitles(book_titles)
    /\ highlights' = file
    /\ i' = 0
    /\ bk' = 0
    /\ pc' = "aggregate"
    /\ UNCHANGED <<clippings, parser_vars>>

\* Lines 240-251: one iteration of the first loop.  h carries, as src, the
\* position of its block in the file: the identity of the Highlight object.
AggregateStep ==
    /\ pc = "aggregate"
    /\ i < Len(highlights)
    /\ LET made == parse_highlight(highlights[i + 1]) IN
       IF made.raised # ""
       THEN \* the exception leaves Highlight.__init__ and process()
            /\ pc' = "aborted"
            /\ UNCHANGED <<i, book_titles, library>>
       ELSE LET h == [src |-> i + 1] @@ made.value IN
            /\ IF IsNewTitle(h, book_titles)
               THEN LET b == Book(h.title, h.author) IN
                    /\ book_titles' = book_titles \cup {b.title}
                    /\ library' = Append(library, add_highlight(b, h))
               ELSE /\ library' = [k \in DOMAIN library |->
                                     IF library[k].title = h.title
                                     THEN add_highlight(library[k], h)
                                     ELSE library[k]]
                    /\ UNCHANGED book_titles
            /\ i' = i + 1
            /\ pc' = IF i + 1 = Len(highlights)
                     THEN AfterAggregation(library') ELSE "aggregate"
    /\ UNCHANGED <<runs, highlights, processed_books, bk, clippings, rerun, parser_vars>>

\* Lines 254-262: one iteration of the second loop.
PersistBook ==
    /\ pc = "persist"
    /\ bk < Len(library)
    /\ LET book == library[bk + 1] IN
       IF HasTitle(book) /\ \A t \in DOMAIN processed_books :
                               processed_books[t] # Strip(book.title)
       THEN /\ clippings' = write_book_to_supabase(book, clippings)
            /\ processed_books' = Append(processed_books, Strip(book.title))
       ELSE UNCHANGED <<clippings, processed_books>>
    /\ bk' = bk + 1
    /\ pc' = IF bk + 1 = Len(library) THEN "done" ELSE "persist"
    /\ UNCHANGED <<runs, highlights, i, book_titles, library, rerun, parser_vars>>

(***************************************************************************)
(* Runs of the parser alone: parse_highlight, tidy_date and                *)
(* get_type_and_location applied to one block, given by its parts.         *)
(***************************************************************************)
MaxContentLines == 2

Kinds == {"Highlight", "Note"}
Ranges == {"120-121", "866"}
\* the two descriptor shapes of the format, and a descriptor without " on "
Shapes == {"location", "page", "bare"}
ClockHours == 1..12
\* a date that is not in the verbose format
BadDate == <<"2018-10-24">>
Dates == {VerboseDate("Wednesday, October 24, 2018 ", h, ":25:36 ", m) :
             h \in ClockHours, m \in MeridiemTokens} \cup {BadDate}
BookLines == {BookLine(<<"D", "u", "n", "e">>, <<"A">>), <<"D", "u", "n", "e">>}

ParseInputs ==
    [lead : BOOLEAN, book_line : BookLines, shape : Shapes, kind : Kinds,
     range : Ranges, added : BOOLEAN, date : Dates,
     content_lines : 0..MaxContentLines, trail : BOOLEAN]

DescriptorOf(in) ==
    IF in.shape = "bare" THEN <<"- Your ", in.kind>>
    ELSE Descriptor(in.kind, in.shape = "page", in.range)

DetailLineOf(in) ==
    IF in.added THEN DetailLine(DescriptorOf(in), in.date) ELSE DescriptorOf(in)

ContentLinesOf(in) ==
    [k \in 1..in.content_lines |-> IF k % 2 = 1 THEN <<"text1">> ELSE <<"text2">>]

BlockOf(in) ==
    Block(in.lead, in.book_line, DetailLineOf(in), ContentLinesOf(in), in.trail)

\* Highlight.parse_highlight(raw_highlight_str)
ParseBlock ==
    /\ parsed = Pending
    /\ parsed' = parse_highlight(BlockOf(raw_input))
    /\ UNCHANGED <<process_vars, raw_input, tidied, located>>

\* Highlight.tidy_date(raw_date), on the text after " | Added on "
TidyDate ==
    /\ tidied = Pending
    /\ tidied' = tidy_date(raw_input.date)
    /\ UNCHANGED <<process_vars, raw_input, parsed, located>>

\* Highlight.get_type_and_location(loc_str), on the text before " | Added on "
Locate ==
    /\ located = Pending
    /\ located' = get_type_and_location(DescriptorOf(raw_input))
    /\ UNCHANGED <<process_vars, raw_input, parsed, tidied>>

InitProcess ==
    /\ pc = "idle"
    /\ runs = 0
    /\ highlights = <<>>
    /\ i = 0
    /\ book_titles = {}
    /\ library = <<>>
    /\ processed_books = <<>>
    /\ bk = 0
    /\ clippings = <<>>
    /\ rerun = FALSE

Init ==
    /\ InitProcess
    /\ raw_input = CHOOSE in \in ParseInputs : TRUE
    /\ parsed = Pending
    /\ tidied = Pending
    /\ located = Pending

\* A caller that calls process() up to MaxRuns times, one call after the other.
Next ==
    \/ runs < MaxRuns /\ \E file \in RunFiles : StartRun(file)
    \/ AggregateStep
    \/ PersistBook

Spec == Init /\ [][Next]_vars

\* Lines 273-281: the script calls process() once.
NextMain ==
    \/ runs = 0 /\ \E file \in Files : StartRun(file)
    \/ AggregateStep
    \/ PersistBook

SpecMain == Init /\ [][NextMain]_vars

InitParse ==
    /\ InitProcess
    /\ raw_input \in ParseInputs
    /\ parsed = Pending
    /\ tidied = Pending
    /\ located = Pending

NextParse ==
    \/ ParseBlock
    \/ TidyDate
    \/ Locate

SpecParse == InitParse /\ [][NextParse]_vars

(***************************************************************************)
(* Properties of the runs of process()  (SpecMain, Spec)                   *)
(***************************************************************************)
\* The parse of the k-th block of the file of the current run.
ParsedAt(k) == parse_highlight(highlights[k])
\* The blocks the first loop has consumed that parsed into a Clipping.
ClippingBlocks == {k \in 1..i : ParsedAt(k).raised = "" /\ ParsedAt(k).value.title # None}
TitleAt(k) == ParsedAt(k).value.title
BookTitles == {library[b].title : b \in DOMAIN library}
\* The positions in the file of the Clippings of the b-th Book, in Book order.
SrcOf(b) == [n \in DOMAIN library[b].highlights |-> library[b].highlights[n].src]
Holds(b, k) == \E n \in DOMAIN library[b].highlights : library[b].highlights[n].src = k
RECURSIVE CountClippings(_)
CountClippings(lib) ==
    IF lib = <<>> THEN 0 ELSE Len(Head(lib).highlights) + CountClippings(Tail(lib))

\* C1: a run of process() never aborts because of a single bad block: whatever
\* the blocks of the file, the run does not end in an exception raised by the
\* parse of one of them.
C1_RunNeverAborts == pc # "aborted"

\* C2: no block silently vanishes: at the end of a run the Clippings held by
\* the Books plus the failures reported to the caller are as many as the blocks
\* of the file.
C2_NoBlockVanishes ==
    pc = "done" => CountClippings(library) + Len(ReportedFailures) = Len(highlights)

\* C3: after every step of the aggregation loop no two Books of the library
\* have the same normalized title, the Books are as many as the distinct
\* normalized titles of the Clippings parsed so far, and every Clipping is held
\* by the one Book of its title.
C3_OneBookPerTitle ==
    /\ \A a, b \in DOMAIN library : a # b => library[a].title # library[b].title
    /\ BookTitles = {TitleAt(k) : k \in ClippingBlocks}
    /\ Len(library) = Cardinality({TitleAt(k) : k \in ClippingBlocks})
    /\ \A k \in ClippingBlocks :
          \E b \in DOMAIN library :
             /\ library[b].title = TitleAt(k)
             /\ \A c \in DOMAIN library : Holds(c, k) <=> c = b

\* C3 witness: a finished run with two Books, one of them holding two
\* Clippings whose blocks spell the title differently.
C3_Witness ==
    /\ pc = "done"
    /\ Len(library) = 2
    /\ \E b \in DOMAIN library : \E m, n \in DOMAIN library[b].highlights :
          /\ m # n
          /\ highlights[SrcOf(b)[m]][2] # highlights[SrcOf(b)[n]][2]

\* C4: persistence is insert-if-absent keyed on the content hash alone: every
\* step leaves the table with rows whose hash is the digest of their content
\* and with at most one row per hash, only appends rows, and appends a row only
\* if no row had its hash before; a run given the file of the run before it
\* inserts nothing.
C4_InsertIfAbsent ==
    [][/\ \A a \in DOMAIN clippings' : clippings'[a].hash = Checksum(clippings'[a].content, 1)
       /\ \A a, b \in DOMAIN clippings' : a # b => clippings'[a].hash # clippings'[b].hash
       /\ Len(clippings') >= Len(clippings)
       /\ SubSeq(clippings', 1, Len(clippings)) = clippings
       /\ \A n \in (Len(clippings) + 1)..Len(clippings') :
             \A o \in DOMAIN clippings : clippings[o].hash # clippings'[n].hash
       /\ rerun' => clippings' = clippings]_vars

\* C4 witness: the second run of a file has finished; its library has two
\* Books with different titles holding Clippings of the same hash, and the
\* table holds a row of that hash.
C4_Witness ==
    /\ pc = "done"
    /\ rerun
    /\ \E a, b \in DOMAIN library :
          /\ library[a].title # library[b].title
          /\ HasTitle(library[a]) /\ HasTitle(library[b])
          /\ \E m \in DOMAIN library[a].highlights, n \in DOMAIN library[b].highlights :
                /\ to_hash(library[a].highlights[m]) = to_hash(library[b].highlights[n])
                /\ \E r \in DOMAIN clippings :
                      clippings[r].hash = to_hash(library[a].highlights[m])

\* C5: the seen-titles registry is scoped to one run: it is empty when the
\* aggregation loop of a run starts, and throughout a run it holds exactly the
\* normalized titles of the Clippings this run has parsed, each of which has
\* its Book, with its Clippings, in this run's library.
C5_RegistryPerRun ==
    /\ (pc = "aggregate" /\ i = 0) => book_titles = {}
    /\ pc # "idle" => book_titles = {TitleAt(k) : k \in ClippingBlocks}
    /\ \A k \in ClippingBlocks :
          \E b \in DOMAIN library : library[b].title = TitleAt(k) /\ Holds(b, k)

\* C5 witness: a second run, of the file the first run was given, has finished
\* with a Book in its library: every title of it had been seen by the first run.
C5_Witness ==
    /\ runs = 2
    /\ rerun
    /\ pc = "done"
    /\ library # <<>>
    /\ book_titles # {}

\* C6: aggregation preserves encounter order: the Books are in the order their
\* titles were first seen in the file, and in each Book the Clippings are those
\* of its title, each once, in the order of their blocks.
C6_EncounterOrder ==
    /\ \A b \in DOMAIN library :
          /\ library[b].highlights # <<>>
          /\ \A m, n \in DOMAIN SrcOf(b) : m < n => SrcOf(b)[m] < SrcOf(b)[n]
          /\ {SrcOf(b)[n] : n \in DOMAIN SrcOf(b)} =
                {k \in ClippingBlocks : TitleAt(k) = library[b].title}
          /\ \A n \in DOMAIN library[b].highlights :
                library[b].highlights[n] =
                   [src |-> SrcOf(b)[n]] @@ ParsedAt(SrcOf(b)[n]).value
    /\ \A a, b \in DOMAIN library : a < b => SrcOf(a)[1] < SrcOf(b)[1]

\* C6 witness: a finished run of three blocks whose first and third went to
\* the first Book and whose second went to the second Book.
C6_Witness ==
    /\ pc = "done"
    /\ Len(library) = 2
    /\ SrcOf(1) = <<1, 3>>
    /\ SrcOf(2) = <<2>>

IsClipping(result) == result.raised = "" /\ result.value.title # None
IsEmptySet(result) == result.raised = "" /\ result.value.title = None

\* The lines of the block once an empty first line has been removed.
LinesAfterDrop(in) ==
    Len(BlockOf(in)) - (IF BlockOf(in)[1] = <<>> THEN 1 ELSE 0)

\* C8: the line-count check is applied after the leading empty line is
\* dropped: a block with fewer than 5 lines once an empty first line has been
\* removed is rejected as too short, so its parse yields no Clipping.
C8_ShortAfterDropRejected ==
    (parsed.raised # "pending" /\ LinesAfterDrop(raw_input) < 5) => ~IsClipping(parsed)

\* The 24-hour value of a 12-hour clock time.
Hour24(h, meridiem) ==
    IF meridiem = "PM" THEN (IF h = 12 THEN 12 ELSE h + 12)
    ELSE (IF h = 12 THEN 0 ELSE h)

\* C9: tidy_date converts the 12-hour source time to the 24-hour form for every
\* hour 1..12 and both AM and PM: the hour of the canonical date is the 24-hour
\* value of the source hour and its AM/PM marker.
C9_TwentyFourHour ==
    (tidied.raised # "pending" /\ raw_input.date # BadDate) =>
       /\ tidied.raised = ""
       /\ tidied.value[2] = Hour24(IntOfHour(raw_input.date[2]), raw_input.date[4])

\* C10 (as claimed): for the two descriptor shapes the parsed location is the
\* Location range itself and the parsed kind is the Kind.
C10_LocationIsRange ==
    raw_input.shape \in {"location", "page"} =>
       /\ located.raised # "pending" =>
             located = Return(<< <<raw_input.kind>>, <<raw_input.range>> >>)
       /\ (parsed.raised # "pending" /\ IsClipping(parsed)) =>
             /\ parsed.value.main_loc = <<raw_input.range>>
             /\ parsed.value.highlight_type = <<raw_input.kind>>

\* C10 (amended): for the two descriptor shapes the parsed location is the
\* Location phrase, the word Location followed by the range, never the page
\* token, and the parsed kind is the Kind.
C10_LocationPhraseWins ==
    raw_input.shape \in {"location", "page"} =>
       /\ located.raised # "pending" =>
             located = Return(<< <<raw_input.kind>>, <<"Location ", raw_input.range>> >>)
       /\ (parsed.raised # "pending" /\ IsClipping(parsed)) =>
             /\ parsed.value.main_loc = <<"Location ", raw_input.range>>
             /\ parsed.value.highlight_type = <<raw_input.kind>>

\* C10 witness: a block with the page-and-Location descriptor has been parsed
\* into a Clipping, and its descriptor alone has been parsed too.
C10_Witness ==
    /\ raw_input.shape = "page"
    /\ located.raised = ""
    /\ parsed.raised = ""
    /\ IsClipping(parsed)
====
